---- MODULE Spec2Model ----
(***************************************************************************)
(* Model of the inventory backend (backend/app.py): the items table, the   *)
(* hosted-image store, and the request handlers get_items, add_item,       *)
(* update_item and delete_item, each split at its database statements and  *)
(* external calls so that requests of different clients interleave there.  *)
(*                                                                         *)
(* A row carries id, item_code, item_name, image_filename and created_at.  *)
(* rack_no, quantity and description are written next to item_name by the  *)
(* same statements and read by no filter, so they are not carried.         *)
(*                                                                         *)
(* Time is counted in minutes from 2024-01-01T00:00Z.                      *)
(***************************************************************************)
EXTENDS Integers, Sequences, FiniteSets, TLC

VARIABLES
    items,      \* committed contents of table items
    nextId,     \* next value of the SERIAL sequence behind items.id
    now,        \* CURRENT_TIMESTAMP given to the latest insert (each insert gets a later one)
    sessionTZ,  \* minutes east of UTC of the database session's TimeZone setting
    assets,     \* image URLs currently held by the hosted-image store
    nextAsset,  \* number of uploads accepted so far (names the next URL)
    started,    \* requests received so far
    pc,         \* per client: position inside its handler
    handler,    \* per client: the handler it runs
    args,       \* per client: the request's parameters
    loc,        \* per client: the handler's local variables
    conn,       \* per client: state of the connection the handler opened
    resp        \* per client: the response (or the exception that ended the request)

vars == <<items, nextId, now, sessionTZ, assets, nextAsset, started, pc, handler, args, loc, conn, resp>>

---------------------------------------------------------------------------
(* Bounds *)

MaxItems == 2          \* distinct item codes in play
MaxPage == 2           \* page is drawn from 1..MaxPage
MaxPerPage == 2        \* per_page is drawn from -1..MaxPerPage
MaxRequests == 2       \* requests received in one run (caps ids and uploads too)
MaxSeed == 4           \* items in the seeder's sample data (120 in the script)

MinutesPerDay == 1440

Clients == {1, 2}
\* SQL NULL and Python None, for an image reference
NULL == <<>>

AllCodes == <<"TSH-001", "TSH-002", "TKS-003", "JSY-004", "JSY-005">>
Codes == {AllCodes[i] : i \in 1..MaxItems}

\* item names as character sequences, so that case and substrings are visible
StoredNames == {<<"T">>, <<"t", "s">>}
FilterNames == {<<"t">>, <<"T">>}
NoName == <<>>

\* 2024-01-01T23:30Z and 2024-01-02T00:30Z
Times == {1410, 1470}
NoDate == <<>>
Dates == {<<2024, 1, 1>>, <<2024, 1, 2>>}

---------------------------------------------------------------------------
(* Pure helpers *)

Min(a, b) == IF a <= b THEN a ELSE b
Max(a, b) == IF a >= b THEN a ELSE b

\* Python's // : floor division, also for a negative divisor; raises on 0.
PyFloorDiv(a, b) ==
    IF b > 0 THEN a \div b
    ELSE IF a <= 0 THEN (-a) \div (-b)
    ELSE -(((a - 1) \div (-b)) + 1)

\* int(x) of a float given in tenths: truncation toward zero.
PyIntOfTenths(t) == IF t >= 0 THEN t \div 10 ELSE -((-t) \div 10)

\* tzOffset as sent: absent, "", numeric text (value in tenths), other text,
\* "nan", "inf".
TzAbsent == [kind |-> "absent", tenths |-> 0]
TzValues ==
    { TzAbsent,
      [kind |-> "empty", tenths |-> 0],
      [kind |-> "num", tenths |-> -3300],
      [kind |-> "num", tenths |-> 905],
      [kind |-> "text", tenths |-> 0],
      [kind |-> "nan", tenths |-> 0],
      [kind |-> "inf", tenths |-> 0] }

\* bool(tz_offset_minutes_str)
TzTruthy(tz) == tz.kind \notin {"absent", "empty"}

\* int(float(tz_offset_minutes_str)): the value, or the exception raised.
ParseTzOffset(tz) ==
    CASE tz.kind = "num"  -> [exc |-> "", val |-> PyIntOfTenths(tz.tenths)]
      [] tz.kind = "text" -> [exc |-> "ValueError", val |-> 0]
      [] tz.kind = "nan"  -> [exc |-> "ValueError", val |-> 0]
      [] tz.kind = "inf"  -> [exc |-> "OverflowError", val |-> 0]
      [] OTHER            -> [exc |-> "TypeError", val |-> 0]

\* except (ValueError, TypeError)
FallbackExceptions == {"ValueError", "TypeError"}

\* TO_DATE(s, 'YYYY-MM-DD') as a day number (days from 2024-01-01).
IsLeap(y) == (y % 4 = 0 /\ y % 100 # 0) \/ y % 400 = 0
DaysInMonth(y, m) ==
    IF m = 2 THEN (IF IsLeap(y) THEN 29 ELSE 28)
    ELSE IF m \in {4, 6, 9, 11} THEN 30 ELSE 31
RECURSIVE DaysBeforeMonth(_, _)
DaysBeforeMonth(y, m) ==
    IF m = 1 THEN 0 ELSE DaysBeforeMonth(y, m - 1) + DaysInMonth(y, m - 1)
RECURSIVE DaysBeforeYear(_)
DaysBeforeYear(y) ==
    IF y = 2024 THEN 0
    ELSE IF y > 2024 THEN DaysBeforeYear(y - 1) + (IF IsLeap(y - 1) THEN 366 ELSE 365)
    ELSE DaysBeforeYear(y + 1) - (IF IsLeap(y) THEN 366 ELSE 365)
ToDate(d) == DaysBeforeYear(d[1]) + DaysBeforeMonth(d[1], d[2]) + d[3] - 1

\* calendar day of a timestamp (minutes) read in UTC
UtcDate(ts) == ts \div MinutesPerDay
\* date(timestamptz): the calendar day in the session's time zone
SessionDate(ts, tz) == (ts + tz) \div MinutesPerDay

---------------------------------------------------------------------------
(* The listing query of get_items *)

LowerChar(ch) == IF ch = "T" THEN "t" ELSE IF ch = "S" THEN "s" ELSE ch
Lower(str) == [i \in 1..Len(str) |-> LowerChar(str[i])]
\* item_name ILIKE '%' || wanted || '%', the matching of search_items (line 351)
NameContainsNoCase(stored, wanted) ==
    \E i \in 1..(Len(stored) - Len(wanted) + 1) :
        SubSeq(Lower(stored), i, i + Len(wanted) - 1) = Lower(wanted)

\* item_name = %s  (SQL text equality)
NameEq(stored, wanted) == stored = wanted

\* the WHERE clauses get_items appends, with their bound parameters
NameClause(n) == [kind |-> "name", name |-> n, shift |-> 0, date |-> NoDate]
ShiftClause(m, d) == [kind |-> "date_shift", name |-> NoName, shift |-> m, date |-> d]
UtcClause(d) == [kind |-> "date_utc", name |-> NoName, shift |-> 0, date |-> d]

\* one clause evaluated on one row, in a session whose TimeZone is tz
RowSatisfies(r, cl, tz) ==
    CASE cl.kind = "name" -> NameEq(r.item_name, cl.name)
      [] cl.kind = "date_shift" ->
            \* date(created_at + (%s * interval '1 minute')) = TO_DATE(%s, ..):
            \* created_at + interval is a timestamptz, and date() of a
            \* timestamptz is taken in the session's time zone
            SessionDate(r.created_at + cl.shift, tz) = ToDate(cl.date)
      [] cl.kind = "date_utc" ->
            \* date(created_at AT TIME ZONE 'UTC') = TO_DATE(%s, ..)
            UtcDate(r.created_at) = ToDate(cl.date)

\* the date part of the WHERE list: the clauses, or the exception that escapes
DateClauses(a) ==
    IF a.date = NoDate THEN [exc |-> "", where |-> <<>>]
    ELSE IF TzTruthy(a.tzOffset)
    THEN LET p == ParseTzOffset(a.tzOffset)
         IN  IF p.exc = "" THEN [exc |-> "", where |-> <<ShiftClause(-p.val, a.date)>>]
             ELSE IF p.exc \in FallbackExceptions
             THEN [exc |-> "", where |-> <<UtcClause(a.date)>>]
             ELSE [exc |-> p.exc, where |-> <<>>]
    ELSE [exc |-> "", where |-> <<UtcClause(a.date)>>]

\* where_clauses / query_params as built by get_items
BuildWhere(a) ==
    LET n == IF a.name # NoName THEN <<NameClause(a.name)>> ELSE <<>>
        d == DateClauses(a)
    IN  [exc |-> d.exc, where |-> n \o d.where]

\* rows of a table state that satisfy every clause
Matching(store, where, tz) ==
    {r \in store : \A i \in 1..Len(where) : RowSatisfies(r, where[i], tz)}

PageWhereWithoutName(where) == SelectSeq(where, LAMBDA cl : cl.kind # "name")

\* the WHERE list of the count query and of the page query
CountWhere(where) == where
PageWhere(where) == where

TotalPagesRoundedDown(total_items, per_page) == PyFloorDiv(total_items, per_page)

\* total_pages = (total_items + per_page - 1) // per_page
TotalPages(total_items, per_page) == PyFloorDiv(total_items + per_page - 1, per_page)

PageOffsetFromPageZero(page, per_page) == page * per_page

\* offset = (page - 1) * per_page
PageOffset(page, per_page) == (page - 1) * per_page

\* ORDER BY created_at DESC: every order of S with created_at non-increasing
\* (rows with equal created_at come in an order the database picks)
OrderedDesc(S) ==
    LET n == Cardinality(S)
    IN  {s \in [1..n -> S] :
            /\ \A i, j \in 1..n : i # j => s[i] # s[j]
            /\ \A i \in 1..n : \A j \in 1..n :
                  i < j => s[i].created_at >= s[j].created_at}

\* LIMIT limit OFFSET offset over an ordered result
LimitOffset(ord, limit, offset) ==
    IF offset >= Len(ord) THEN <<>>
    ELSE SubSeq(ord, offset + 1, Min(Len(ord), offset + limit))

---------------------------------------------------------------------------
(* Per-request state *)

\* a request is taken by the first idle worker (workers are interchangeable)
Free(c) == pc[c] = "idle" /\ \A k \in Clients : k < c => pc[k] # "idle"

NoArgs == [none |-> TRUE]
LocInit ==
    [ where |-> <<>>, total_items |-> 0, total_pages |-> 0,
      image_url |-> NULL, old_image_url |-> NULL, image_set |-> FALSE,
      cleanup |-> "none", seenAtCount |-> {}, seenAtPage |-> {},
      seed_index |-> 0, inserted_count |-> 0, pending |-> {}, table_before |-> {} ]
NoResp == [status |-> 0, error |-> "", items |-> <<>>, currentPage |-> 0, totalPages |-> 0]

\* a response without a listing body
Reply(status) == [NoResp EXCEPT !.status = status]
\* an exception that escapes the handler: the framework answers 500
Raised(exc) == [NoResp EXCEPT !.status = 500, !.error = exc]

ListArgs ==
    [ page : 1..MaxPage, per_page : -1..MaxPerPage, name : FilterNames \cup {NoName},
      date : Dates \cup {NoDate}, tzOffset : TzValues ]

---------------------------------------------------------------------------
(* get_items *)

\* lines 138-175: open the connection, read the parameters, build the WHERE list
GetItemsBegin(c, a) ==
    /\ Free(c)
    /\ started < MaxRequests
    /\ started' = started + 1
    /\ handler' = [handler EXCEPT ![c] = "get_items"]
    /\ args' = [args EXCEPT ![c] = a]
    /\ conn' = [conn EXCEPT ![c] = "open"]
    /\ LET w == BuildWhere(a)
       IN  IF w.exc # ""
           THEN /\ resp' = [resp EXCEPT ![c] = Raised(w.exc)]
                /\ pc' = [pc EXCEPT ![c] = "done"]
                /\ loc' = loc
           ELSE /\ loc' = [loc EXCEPT ![c].where = w.where]
                /\ pc' = [pc EXCEPT ![c] = "gi_count"]
                /\ resp' = resp
    /\ UNCHANGED <<items, nextId, now, sessionTZ, assets, nextAsset>>

\* lines 178-181: the count query and the page arithmetic
GetItemsCount(c) ==
    /\ pc[c] = "gi_count"
    /\ LET total_items == Cardinality(Matching(items, CountWhere(loc[c].where), sessionTZ))
           per_page == args[c].per_page
       IN  IF per_page = 0
           THEN /\ resp' = [resp EXCEPT ![c] = Raised("ZeroDivisionError")]
                /\ pc' = [pc EXCEPT ![c] = "done"]
                /\ loc' = [loc EXCEPT ![c].total_items = total_items,
                                      ![c].seenAtCount = items]
           ELSE /\ loc' = [loc EXCEPT ![c].total_items = total_items,
                                      ![c].total_pages = TotalPages(total_items, per_page),
                                      ![c].seenAtCount = items]
                /\ pc' = [pc EXCEPT ![c] = "gi_page"]
                /\ resp' = resp
    /\ UNCHANGED <<items, nextId, now, sessionTZ, assets, nextAsset, started, handler, args, conn>>

\* lines 184-196: the page query, close, the response.  The database rejects a
\* negative LIMIT or OFFSET; that error escapes before close() is reached.
GetItemsPage(c) ==
    /\ pc[c] = "gi_page"
    /\ LET page == args[c].page
           per_page == args[c].per_page
           offset == PageOffset(page, per_page)
       IN  IF per_page < 0 \/ offset < 0
           THEN /\ resp' = [resp EXCEPT ![c] = Raised("DatabaseError")]
                /\ conn' = conn
                /\ loc' = [loc EXCEPT ![c].seenAtPage = items]
           ELSE \E ord \in OrderedDesc(Matching(items, PageWhere(loc[c].where), sessionTZ)) :
                /\ resp' = [resp EXCEPT ![c] =
                       [ status |-> 200, error |-> "",
                         items |-> LimitOffset(ord, per_page, offset),
                         currentPage |-> page,
                         totalPages |-> loc[c].total_pages ]]
                /\ conn' = [conn EXCEPT ![c] = "closed"]
                /\ loc' = [loc EXCEPT ![c].seenAtPage = items]
    /\ pc' = [pc EXCEPT ![c] = "done"]
    /\ UNCHANGED <<items, nextId, now, sessionTZ, assets, nextAsset, started, handler, args>>

\* the response has been sent; the client may issue its next request
Finish(c) ==
    /\ pc[c] = "done"
    /\ pc' = [pc EXCEPT ![c] = "idle"]
    /\ handler' = [handler EXCEPT ![c] = "none"]
    /\ args' = [args EXCEPT ![c] = NoArgs]
    /\ loc' = [loc EXCEPT ![c] = LocInit]
    /\ conn' = [conn EXCEPT ![c] = "none"]
    /\ resp' = [resp EXCEPT ![c] = NoResp]
    /\ UNCHANGED <<items, nextId, now, sessionTZ, assets, nextAsset, started>>

---------------------------------------------------------------------------
(* Listing over an arbitrary table: one client, no writers *)

Row(id, code, name, image, created) ==
    [ id |-> id, item_code |-> code, item_name |-> name,
      image_filename |-> image, created_at |-> created ]

CodeIndex(code) == CHOOSE i \in 1..Len(AllCodes) : AllCodes[i] = code

\* every table over Codes: each code absent, or present with a name and a time
Tables ==
    LET Absent == <<>>
        pick == [Codes -> {Absent} \cup (StoredNames \X Times)]
    IN  { {Row(CodeIndex(code), code, f[code][1], NULL, f[code][2]) :
              code \in {k \in Codes : f[k] # Absent}} : f \in pick }

SessionZones == {0, 330}

InitClients ==
    /\ pc = [c \in Clients |-> "idle"]
    /\ handler = [c \in Clients |-> "none"]
    /\ args = [c \in Clients |-> NoArgs]
    /\ loc = [c \in Clients |-> LocInit]
    /\ conn = [c \in Clients |-> "none"]
    /\ resp = [c \in Clients |-> NoResp]

InitList ==
    /\ items \in Tables
    /\ nextId = MaxItems + 1
    /\ now = 1470
    /\ sessionTZ \in SessionZones
    /\ assets = {}
    /\ nextAsset = 0
    /\ started = MaxRequests - 1
    /\ InitClients

NextList ==
    \/ \E a \in ListArgs : GetItemsBegin(1, a)
    \/ GetItemsCount(1)
    \/ GetItemsPage(1)
    \/ Finish(1)

SpecList == InitList /\ [][NextList]_vars

---------------------------------------------------------------------------
(* The hosted-image store *)

ALLOWED_EXTENSIONS == {<<"p", "n", "g">>, <<"j", "p", "g">>, <<"j", "p", "e", "g">>, <<"g", "i", "f">>}

\* a file name is <<>> (empty), <<stem>> (no dot) or <<stem, extension>>
LowerExt(e) == [i \in 1..Len(e) |-> IF e[i] = "P" THEN "p" ELSE IF e[i] = "N" THEN "n"
                                    ELSE IF e[i] = "G" THEN "g" ELSE e[i]]
allowed_file(filename) ==
    Len(filename) = 2 /\ LowerExt(filename[2]) \in ALLOWED_EXTENSIONS

NoFile == [present |-> FALSE, filename |-> <<>>]
Files ==
    { NoFile,
      [present |-> TRUE, filename |-> <<"a", <<"P", "N", "G">> >>],
      [present |-> TRUE, filename |-> <<"a", <<"e", "x", "e">> >>] }

AssetUrl(k) == <<"https://res.cloudinary.com/demo/image/upload/v", k>>

\* upload_to_cloudinary: what the uploader may do with a file.  "url": stored,
\* secure_url returned; "none": no secure_url in the result; "raise": the
\* upload raised, which the helper re-raises.
UploadOutcomes(file) ==
    IF file.filename = <<>> \/ ~allowed_file(file.filename) THEN {"skipped"}
    ELSE {"url", "none", "raise"}

Uploads == {"skipped", "url", "none", "raise"}

\* delete_from_cloudinary: the store after the call.  A NULL url returns at
\* once; "failed" is a destroy() that raised (caught and logged) or removed
\* nothing.
DestroyOutcomes == {"destroyed", "failed"}
\* what the helper did for this request: nothing (NULL url), or the outcome
Cleanup(secure_url, outcome) == IF secure_url = NULL THEN "none" ELSE outcome
delete_from_cloudinary(store, secure_url, outcome) ==
    IF secure_url = NULL THEN store
    ELSE IF outcome = "destroyed" THEN store \ {secure_url}
    ELSE store

---------------------------------------------------------------------------
(* add_item *)

WriteNames == {<<"t">>, <<"T">>}
Forms == {"missing", "badjson"}

\* the item code and a data part with every field, or one that lacks a field
WriteArgs ==
    [ item_code : Codes, item_name : WriteNames, fieldsOk : {TRUE} ]
    \cup [ item_code : Codes, item_name : {NoName}, fieldsOk : {FALSE} ]

\* lines 201-207 and 261-267: no 'data' part, or a data part that is no JSON
BadRequest(c, h, f) ==
    /\ Free(c)
    /\ started < MaxRequests
    /\ started' = started + 1
    /\ f \in {"missing", "badjson"}
    /\ handler' = [handler EXCEPT ![c] = h]
    /\ args' = args
    /\ resp' = [resp EXCEPT ![c] = Reply(400)]
    /\ pc' = [pc EXCEPT ![c] = "done"]
    /\ UNCHANGED <<items, nextId, now, sessionTZ, assets, nextAsset, loc, conn>>

\* lines 209-222: the upload, then the connection
AddItemBegin(c, a, file, up) ==
    /\ Free(c)
    /\ started < MaxRequests
    /\ started' = started + 1
    /\ handler' = [handler EXCEPT ![c] = "add_item"]
    /\ args' = [args EXCEPT ![c] = a]
    /\ IF file.present
       THEN /\ up \in UploadOutcomes(file)
            /\ IF up = "raise"
               THEN /\ resp' = [resp EXCEPT ![c] = [Reply(500) EXCEPT !.error = "upload"]]
                    /\ pc' = [pc EXCEPT ![c] = "done"]
                    /\ UNCHANGED <<loc, conn, assets, nextAsset>>
               ELSE /\ IF up = "url"
                       THEN /\ assets' = assets \cup {AssetUrl(nextAsset + 1)}
                            /\ nextAsset' = nextAsset + 1
                            /\ loc' = [loc EXCEPT ![c].image_url = AssetUrl(nextAsset + 1)]
                       ELSE UNCHANGED <<assets, nextAsset, loc>>
                    /\ conn' = [conn EXCEPT ![c] = "open"]
                    /\ pc' = [pc EXCEPT ![c] = "ai_insert"]
                    /\ resp' = resp
       ELSE /\ up = "skipped"
            /\ conn' = [conn EXCEPT ![c] = "open"]
            /\ pc' = [pc EXCEPT ![c] = "ai_insert"]
            /\ UNCHANGED <<loc, assets, nextAsset, resp>>
    /\ UNCHANGED <<items, nextId, now, sessionTZ>>

UniqueViolationNever(table, code) == FALSE

\* the UNIQUE constraint on item_code: does inserting code violate it?
UniqueViolation(table, code) == \E r \in table : r.item_code = code

\* lines 224-243: INSERT .. RETURNING *, commit; on IntegrityError rollback and
\* removal of the image just uploaded; finally close.  A data part lacking a
\* field raises KeyError, which only the finally clause sees.
AddItemInsert(c, d) ==
    /\ pc[c] = "ai_insert"
    /\ d \in DestroyOutcomes
    /\ IF ~args[c].fieldsOk
       THEN /\ d = "failed"
            /\ resp' = [resp EXCEPT ![c] = Raised("KeyError")]
            /\ UNCHANGED <<items, nextId, assets, now, loc>>
       ELSE IF UniqueViolation(items, args[c].item_code)
       THEN /\ assets' = delete_from_cloudinary(assets, loc[c].image_url, d)
            /\ (loc[c].image_url = NULL => d = "failed")
            /\ nextId' = nextId + 1
            /\ resp' = [resp EXCEPT ![c] = [Reply(409) EXCEPT !.error = "IntegrityError"]]
            /\ loc' = [loc EXCEPT ![c].cleanup = Cleanup(loc[c].image_url, d)]
            /\ UNCHANGED <<items, now>>
       ELSE /\ d = "failed"
            /\ now' = now + 1
            /\ items' = items \cup {[ id |-> nextId, item_code |-> args[c].item_code,
                                       item_name |-> args[c].item_name,
                                       image_filename |-> loc[c].image_url,
                                       created_at |-> now + 1 ]}
            /\ nextId' = nextId + 1
            /\ resp' = [resp EXCEPT ![c] = Reply(201)]
            /\ UNCHANGED <<assets, loc>>
    /\ conn' = [conn EXCEPT ![c] = "closed"]
    /\ pc' = [pc EXCEPT ![c] = "done"]
    /\ UNCHANGED <<sessionTZ, nextAsset, started, handler, args>>

---------------------------------------------------------------------------
(* update_item *)

\* clients whose open transaction has updated the row of code and not yet
\* committed: the row is locked for every other writer
Lockers(code) ==
    {k \in Clients : /\ pc[k] = "ui_fields" /\ loc[k].image_set
                     /\ args[k].item_code = code}
LockedForOthers(c, code) == Lockers(code) \ {c} # {}

\* lines 269-282: the connection; with an image part, SELECT of the old image
\* reference and the upload of the new image.  An upload that raises is caught
\* at line 292: rollback, response 500, and no close().
UpdateItemBegin(c, a, file, up) ==
    /\ Free(c)
    /\ started < MaxRequests
    /\ started' = started + 1
    /\ handler' = [handler EXCEPT ![c] = "update_item"]
    /\ args' = [args EXCEPT ![c] = a]
    /\ conn' = [conn EXCEPT ![c] = "open"]
    /\ IF file.present
       THEN /\ up \in UploadOutcomes(file)
            /\ LET old == {r \in items : r.item_code = a.item_code}
                   old_image_url == IF old = {} THEN NULL
                                    ELSE (CHOOSE r \in old : TRUE).image_filename
               IN  IF up = "raise"
                   THEN /\ resp' = [resp EXCEPT ![c] = [Reply(500) EXCEPT !.error = "upload"]]
                        /\ pc' = [pc EXCEPT ![c] = "done"]
                        /\ loc' = [loc EXCEPT ![c].old_image_url = old_image_url]
                        /\ UNCHANGED <<assets, nextAsset>>
                   ELSE /\ IF up = "url"
                           THEN /\ assets' = assets \cup {AssetUrl(nextAsset + 1)}
                                /\ nextAsset' = nextAsset + 1
                                /\ loc' = [loc EXCEPT ![c].old_image_url = old_image_url,
                                                      ![c].image_url = AssetUrl(nextAsset + 1)]
                           ELSE /\ loc' = [loc EXCEPT ![c].old_image_url = old_image_url]
                                /\ UNCHANGED <<assets, nextAsset>>
                        /\ pc' = [pc EXCEPT ![c] = "ui_image"]
                        /\ resp' = resp
       ELSE /\ up = "skipped"
            /\ pc' = [pc EXCEPT ![c] = "ui_fields"]
            /\ UNCHANGED <<loc, assets, nextAsset, resp>>
    /\ UNCHANGED <<items, nextId, now, sessionTZ>>

\* lines 286-291: UPDATE items SET image_filename (uncommitted: it stays in the
\* transaction and locks the row), then removal of the old image
UpdateItemImage(c, d) ==
    /\ pc[c] = "ui_image"
    /\ ~LockedForOthers(c, args[c].item_code)
    /\ d \in DestroyOutcomes
    /\ (loc[c].old_image_url = NULL => d = "failed")
    /\ loc' = [loc EXCEPT ![c].image_set = \E r \in items : r.item_code = args[c].item_code,
                          ![c].cleanup = Cleanup(loc[c].old_image_url, d)]
    /\ assets' = delete_from_cloudinary(assets, loc[c].old_image_url, d)
    /\ pc' = [pc EXCEPT ![c] = "ui_fields"]
    /\ UNCHANGED <<items, nextId, now, sessionTZ, nextAsset, started, handler, args, conn, resp>>

\* the row after this transaction's statements
Updated(c, r) ==
    [r EXCEPT !.item_name = args[c].item_name,
              !.image_filename = IF loc[c].image_set THEN loc[c].image_url ELSE @]

\* lines 298-309: UPDATE of the other fields RETURNING *, commit, close, 404 if
\* no row was updated.  A data part lacking a field raises KeyError out of the
\* handler: nothing is committed and close() is not reached; the transaction
\* ends with the request.
UpdateItemFields(c) ==
    /\ pc[c] = "ui_fields"
    /\ ~LockedForOthers(c, args[c].item_code)
    /\ IF ~args[c].fieldsOk
       THEN /\ resp' = [resp EXCEPT ![c] = Raised("KeyError")]
            /\ UNCHANGED <<items, conn>>
       ELSE LET hit == {r \in items : r.item_code = args[c].item_code}
            IN  /\ items' = (items \ hit) \cup {Updated(c, r) : r \in hit}
                /\ conn' = [conn EXCEPT ![c] = "closed"]
                /\ resp' = [resp EXCEPT ![c] = IF hit = {} THEN Reply(404) ELSE Reply(200)]
    /\ pc' = [pc EXCEPT ![c] = "done"]
    /\ UNCHANGED <<nextId, now, sessionTZ, assets, nextAsset, started, handler, args, loc>>

---------------------------------------------------------------------------
(* delete_item *)

DeleteArgs == [item_code : Codes]

\* lines 314-320: the connection and the SELECT of the image reference
DeleteItemBegin(c, a) ==
    /\ Free(c)
    /\ started < MaxRequests
    /\ started' = started + 1
    /\ handler' = [handler EXCEPT ![c] = "delete_item"]
    /\ args' = [args EXCEPT ![c] = a]
    /\ conn' = [conn EXCEPT ![c] = "open"]
    /\ LET item == {r \in items : r.item_code = a.item_code}
       IN  loc' = [loc EXCEPT ![c].old_image_url =
                      IF item = {} THEN NULL ELSE (CHOOSE r \in item : TRUE).image_filename]
    /\ pc' = [pc EXCEPT ![c] = "di_delete"]
    /\ UNCHANGED <<items, nextId, now, sessionTZ, assets, nextAsset, resp>>

DeleteStatusFailingWithCleanup(deleted, outcome) ==
    IF ~deleted THEN 404 ELSE IF outcome = "failed" THEN 500 ELSE 200

\* the status delete_item answers with: 404 when DELETE returned no row, else
\* 200 whatever the image cleanup did
DeleteStatus(deleted, outcome) == IF ~deleted THEN 404 ELSE 200

\* lines 323-338: DELETE .. RETURNING id, commit; 404 if nothing was deleted;
\* else removal of the image, close, 200
DeleteItemDelete(c, d) ==
    /\ pc[c] = "di_delete"
    /\ ~LockedForOthers(c, args[c].item_code)
    /\ d \in DestroyOutcomes
    /\ LET hit == {r \in items : r.item_code = args[c].item_code}
       IN  /\ items' = items \ hit
           /\ IF hit = {}
              THEN /\ d = "failed"
                   /\ UNCHANGED <<assets, loc>>
              ELSE /\ (loc[c].old_image_url = NULL => d = "failed")
                   /\ assets' = delete_from_cloudinary(assets, loc[c].old_image_url, d)
                   /\ loc' = [loc EXCEPT ![c].cleanup = Cleanup(loc[c].old_image_url, d)]
           /\ resp' = [resp EXCEPT ![c] =
                  Reply(DeleteStatus(hit # {}, Cleanup(loc[c].old_image_url, d)))]
    /\ conn' = [conn EXCEPT ![c] = "closed"]
    /\ pc' = [pc EXCEPT ![c] = "done"]
    /\ UNCHANGED <<nextId, now, sessionTZ, nextAsset, started, handler, args>>

---------------------------------------------------------------------------
(* The server with concurrent clients *)

\* listing requests sent while other clients write
ConcurrentListArgs ==
    [ page : {1}, per_page : {1}, name : {NoName, <<"t">>},
      date : {NoDate}, tzOffset : {TzAbsent} ]

\* the table the server finds at start: empty, or holding an item with an image
InitialTables == { {}, {Row(1, AllCodes[1], <<"t">>, AssetUrl(1), 1410)} }

Init ==
    /\ items \in InitialTables
    /\ nextId = Cardinality(items) + 1
    /\ now = 1410
    /\ sessionTZ = 0
    /\ assets = {r.image_filename : r \in items}
    /\ nextAsset = Cardinality(items)
    /\ started = 0
    /\ InitClients

Next ==
    \/ \E c \in Clients, a \in ConcurrentListArgs : GetItemsBegin(c, a)
    \/ \E c \in Clients : GetItemsCount(c)
    \/ \E c \in Clients : GetItemsPage(c)
    \/ \E c \in Clients, h \in {"add_item", "update_item"}, f \in Forms : BadRequest(c, h, f)
    \/ \E c \in Clients, a \in WriteArgs, file \in Files, up \in Uploads :
          AddItemBegin(c, a, file, up)
    \/ \E c \in Clients, d \in DestroyOutcomes : AddItemInsert(c, d)
    \/ \E c \in Clients, a \in WriteArgs, file \in Files, up \in Uploads :
          UpdateItemBegin(c, a, file, up)
    \/ \E c \in Clients, d \in DestroyOutcomes : UpdateItemImage(c, d)
    \/ \E c \in Clients : UpdateItemFields(c)
    \/ \E c \in Clients, a \in DeleteArgs : DeleteItemBegin(c, a)
    \/ \E c \in Clients, d \in DestroyOutcomes : DeleteItemDelete(c, d)
    \/ \E c \in Clients : Finish(c)

Spec == Init /\ [][Next]_vars

---------------------------------------------------------------------------
(* seed_database (backend/seed_db.py): one connection, one transaction *)

\* generate_sample_data: items with pairwise distinct item codes
SampleData ==
    [i \in 1..MaxSeed |-> [item_code |-> AllCodes[i], item_name |-> <<"T">>, created_at |-> 1410]]
SampleCodes == {SampleData[i].item_code : i \in 1..MaxSeed}

\* the table before seeding: any of the sample codes may be stored already
SeedTables ==
    { {Row(CodeIndex(code), code, <<"T">>, NULL, 1410) : code \in E} : E \in SUBSET SampleCodes }

\* conn.rollback(): every statement of the open transaction is undone
Rollback(pending) == {}

\* lines 65-71: init_db, the connection, the sample data, inserted_count = 0
SeedBegin(c) ==
    /\ pc[c] = "idle"
    /\ handler' = [handler EXCEPT ![c] = "seed_database"]
    /\ conn' = [conn EXCEPT ![c] = "open"]
    /\ loc' = [loc EXCEPT ![c].seed_index = 1, ![c].inserted_count = 0,
                          ![c].pending = {}, ![c].table_before = items]
    /\ pc' = [pc EXCEPT ![c] = "seed_insert"]
    /\ UNCHANGED <<items, nextId, now, sessionTZ, assets, nextAsset, started, args, resp>>

\* lines 72-78: the INSERT of the next sample item, uncommitted; a stored or
\* pending row with the same item_code raises IntegrityError
SeedInsert(c) ==
    /\ pc[c] = "seed_insert"
    /\ loc[c].seed_index <= MaxSeed
    /\ LET item == SampleData[loc[c].seed_index]
       IN  IF UniqueViolation(items \cup loc[c].pending, item.item_code)
           THEN /\ pc' = [pc EXCEPT ![c] = "seed_except"]
                /\ loc' = loc
           ELSE /\ loc' = [loc EXCEPT
                      ![c].pending = @ \cup {Row(nextId, item.item_code, item.item_name,
                                                 NULL, item.created_at)},
                      ![c].inserted_count = @ + 1,
                      ![c].seed_index = @ + 1]
                /\ pc' = pc
    /\ nextId' = nextId + 1
    /\ UNCHANGED <<items, now, sessionTZ, assets, nextAsset, started, handler, args, conn, resp>>

\* lines 79-83: except IntegrityError: conn.rollback(), then the next item
SeedRollback(c) ==
    /\ pc[c] = "seed_except"
    /\ loc' = [loc EXCEPT ![c].pending = Rollback(@), ![c].seed_index = @ + 1]
    /\ pc' = [pc EXCEPT ![c] = "seed_insert"]
    /\ UNCHANGED <<items, nextId, now, sessionTZ, assets, nextAsset, started, handler, args,
                   conn, resp>>

\* lines 85-88: conn.commit(), close, the report of inserted_count
SeedCommit(c) ==
    /\ pc[c] = "seed_insert"
    /\ loc[c].seed_index > MaxSeed
    /\ items' = items \cup loc[c].pending
    /\ loc' = [loc EXCEPT ![c].pending = {}]
    /\ conn' = [conn EXCEPT ![c] = "closed"]
    /\ pc' = [pc EXCEPT ![c] = "done"]
    /\ UNCHANGED <<nextId, now, sessionTZ, assets, nextAsset, started, handler, args, resp>>

InitSeed ==
    /\ items \in SeedTables
    /\ nextId = MaxSeed + 1
    /\ now = 1410
    /\ sessionTZ = 0
    /\ assets = {}
    /\ nextAsset = 0
    /\ started = 0
    /\ InitClients

NextSeed ==
    \/ SeedBegin(1)
    \/ SeedInsert(1)
    \/ SeedRollback(1)
    \/ SeedCommit(1)

SpecSeed == InitSeed /\ [][NextSeed]_vars

---------------------------------------------------------------------------
(* Properties of the listing (checked under SpecList) *)

\* a get_items request that has ended
ListDone(c) == pc[c] = "done" /\ handler[c] = "get_items"
ListOk(c) == ListDone(c) /\ resp[c].status = 200

\* the least n with n * d >= m
Ceiling(m, d) == CHOOSE n \in 0..m : n * d >= m /\ (n = 0 \/ (n - 1) * d < m)

\* rows of the table the request's filters select
Selected(c) == Matching(items, loc[c].where, sessionTZ)

\* C1: for per_page >= 1 and any filters, the totalPages of a successful
\* get_items response is ceil(M / per_page), M the number of rows the filters
\* select; it is 0 when no row is selected.
C1_TotalPagesIsCeiling ==
    \A c \in Clients :
        (ListOk(c) /\ args[c].per_page >= 1) =>
            /\ resp[c].totalPages = Ceiling(Cardinality(Selected(c)), args[c].per_page)
            /\ (Selected(c) = {} => resp[c].totalPages = 0)

C1_Witness ==
    \E c \in Clients :
        /\ ListOk(c)
        /\ args[c].name # NoName /\ args[c].date # NoDate
        /\ args[c].per_page = 2
        /\ Cardinality(Selected(c)) = 1
        /\ resp[c].totalPages = 1

\* C2: for page >= 1 and per_page >= 1 the returned items are the selected
\* rows in descending created_at order, without the first (page-1)*per_page and
\* cut after per_page; never more than per_page; and a page beyond the last is
\* an empty list in a successful response.
C2_PageIsSliceOfOrderedRows ==
    \A c \in Clients :
        (ListDone(c) /\ args[c].page >= 1 /\ args[c].per_page >= 1
                     /\ BuildWhere(args[c]).exc = "") =>
            LET m == Selected(c)
                skip == (args[c].page - 1) * args[c].per_page
                got == resp[c].items
            IN  /\ resp[c].status = 200
                /\ Len(got) <= args[c].per_page
                /\ Len(got) = Max(0, Min(args[c].per_page, Cardinality(m) - skip))
                /\ \E ord \in OrderedDesc(m) :
                      \A i \in 1..Len(got) : got[i] = ord[skip + i]
                /\ (args[c].page > resp[c].totalPages => got = <<>>)

C2_Witness ==
    \E c \in Clients :
        /\ ListOk(c)
        /\ args[c].page = 2 /\ args[c].per_page = 1
        /\ Cardinality(Selected(c)) = 2
        /\ Len(resp[c].items) = 1
        /\ \A r \in Selected(c) : r.created_at >= resp[c].items[1].created_at

C2_WitnessBeyondLast ==
    \E c \in Clients :
        /\ ListOk(c)
        /\ resp[c].totalPages = 1 /\ args[c].page = 2
        /\ resp[c].items = <<>>

\* C3: with a name filter every returned item has exactly that item_name, and
\* the count behind totalPages is the number of rows with exactly that name
\* (among those the date filter selects).
C3_NameFilterIsExact ==
    \A c \in Clients :
        (ListOk(c) /\ args[c].name # NoName) =>
            /\ \A i \in 1..Len(resp[c].items) : resp[c].items[i].item_name = args[c].name
            /\ loc[c].total_items =
                  Cardinality({r \in Matching(items, DateClauses(args[c]).where, sessionTZ) :
                                  r.item_name = args[c].name})

C3_Witness ==
    \E c \in Clients :
        /\ ListOk(c)
        /\ args[c].name = <<"T">>
        /\ \E r \in items : r.item_name = <<"t", "s">>
        /\ Len(resp[c].items) = 1
        /\ loc[c].total_items = 1

\* the date filter as the claim words it: created_at read as UTC, shifted by
\* -tzOffset minutes when tzOffset is numeric, then cut to its calendar day
ClaimedDateMatch(r, a) ==
    IF a.tzOffset.kind = "num"
    THEN UtcDate(r.created_at - PyIntOfTenths(a.tzOffset.tenths)) = ToDate(a.date)
    ELSE UtcDate(r.created_at) = ToDate(a.date)

ClaimedRows(a) ==
    {r \in items : /\ (a.name # NoName => r.item_name = a.name)
                   /\ (a.date # NoDate => ClaimedDateMatch(r, a))}

\* C4: with a date filter, and tzOffset numeric or absent, get_items matches
\* exactly the rows whose created_at, as UTC shifted by -tzOffset minutes (no
\* shift without tzOffset), falls on the filter date.
C4_DateFilterShiftsFromUtc ==
    \A c \in Clients :
        (ListOk(c) /\ args[c].date # NoDate /\ args[c].tzOffset.kind \in {"num", "absent"}) =>
            /\ loc[c].total_items = Cardinality(ClaimedRows(args[c]))
            /\ \A i \in 1..Len(resp[c].items) : resp[c].items[i] \in ClaimedRows(args[c])

\* C4 in a session whose TimeZone is UTC
C4_HoldsInUtcSession == sessionTZ = 0 => C4_DateFilterShiftsFromUtc

\* the response to request c is the successful response of the same request
\* sent without tzOffset
SameAsWithoutOffset(c) ==
    LET plain == Matching(items, BuildWhere([args[c] EXCEPT !.tzOffset = TzAbsent]).where,
                          sessionTZ)
    IN  /\ resp[c].status = 200
        /\ loc[c].total_items = Cardinality(plain)
        /\ \A i \in 1..Len(resp[c].items) : resp[c].items[i] \in plain

\* a finished listing with a date filter, valid paging and a tzOffset of one of
\* the given kinds
ListDoneWithOffset(c, kinds) ==
    /\ ListDone(c)
    /\ args[c].date # NoDate
    /\ args[c].page >= 1 /\ args[c].per_page >= 1
    /\ args[c].tzOffset.kind \in kinds

\* C5: with a date filter and a tzOffset that is no integer number of minutes
\* (text, "nan", "inf") the request succeeds with the response of the same
\* request without tzOffset.
C5_UnparsableOffsetIsIgnored ==
    \A c \in Clients :
        ListDoneWithOffset(c, {"text", "nan", "inf"}) => SameAsWithoutOffset(c)

\* C5 restricted to the values that raise ValueError (text, "nan")
C5_HoldsForTextAndNan ==
    \A c \in Clients :
        ListDoneWithOffset(c, {"text", "nan"}) => SameAsWithoutOffset(c)

\* C10: with per_page <= 0 get_items does not divide by zero: it answers with a
\* listing or with an explicit invalid-input outcome.
C10_NonPositivePerPageIsHandled ==
    \A c \in Clients :
        (ListDone(c) /\ args[c].per_page <= 0 /\ BuildWhere(args[c]).exc = "") =>
            /\ resp[c].error # "ZeroDivisionError"
            /\ resp[c].status \in {200, 400}

---------------------------------------------------------------------------
(* Properties of the server with concurrent clients (checked under Spec) *)

\* the page of ordered rows that skip and limit cut out of a set of rows
IsPageOf(got, rows, page, per_page) ==
    LET skip == (page - 1) * per_page
    IN  /\ Len(got) = Max(0, Min(per_page, Cardinality(rows) - skip))
        /\ \E ord \in OrderedDesc(rows) : \A i \in 1..Len(got) : got[i] = ord[skip + i]

\* count and page of response c both come from table state S
FromOneTable(c, S) ==
    LET rows == Matching(S, BuildWhere(args[c]).where, sessionTZ)
    IN  /\ resp[c].totalPages = Ceiling(Cardinality(rows), args[c].per_page)
        /\ IsPageOf(resp[c].items, rows, args[c].page, args[c].per_page)

\* C6 as claimed: in every get_items response there is a single table state
\* (the one the count query or the one the page query ran against) that gives
\* both totalPages and the page, also when writes interleave.
C6_CountAndPageFromOneTable ==
    \A c \in Clients :
        ListOk(c) => \E S \in {loc[c].seenAtCount, loc[c].seenAtPage} : FromOneTable(c, S)

\* C6 amended: totalPages and the page are computed with the same filter
\* predicates, totalPages over the table as the count query saw it and the page
\* over the table as the page query saw it; they come from a single table
\* state whenever no write was committed between the two queries.
C6_SamePredicatesEachOverItsOwnSnapshot ==
    \A c \in Clients :
        ListOk(c) =>
            LET where == BuildWhere(args[c]).where
                counted == Matching(loc[c].seenAtCount, where, sessionTZ)
                paged == Matching(loc[c].seenAtPage, where, sessionTZ)
            IN  /\ resp[c].totalPages = Ceiling(Cardinality(counted), args[c].per_page)
                /\ IsPageOf(resp[c].items, paged, args[c].page, args[c].per_page)
                /\ (loc[c].seenAtCount = loc[c].seenAtPage => FromOneTable(c, loc[c].seenAtPage))

C6_Witness ==
    \E c \in Clients :
        /\ ListOk(c)
        /\ args[c].name # NoName
        /\ loc[c].seenAtCount # loc[c].seenAtPage
        /\ resp[c].totalPages = 0
        /\ Len(resp[c].items) = 1

\* no two rows share an item_code
UniqueItemCodes == \A r1, r2 \in items : r1.item_code = r2.item_code => r1 = r2

\* an add_item request that ended in the conflict outcome
AddConflict(c) == pc[c] = "done" /\ handler[c] = "add_item" /\ resp[c].status = 409

\* the step of add_item that executes the INSERT for a code already stored
ConflictingInsert(c) ==
    /\ pc[c] = "ai_insert" /\ pc'[c] = "done"
    /\ args[c].fieldsOk
    /\ \E r \in items : r.item_code = args[c].item_code

\* C7 as claimed: item codes stay unique, and an add_item that ended in 409 has
\* removed the image it uploaded.
C7_ConflictRemovesImage ==
    /\ UniqueItemCodes
    /\ \A c \in Clients :
          (AddConflict(c) /\ loc[c].image_url # NULL) => loc[c].image_url \notin assets

\* C7 amended: item codes stay unique; an add_item whose item_code already
\* exists answers 409 and leaves the table unchanged; it calls the image
\* removal for the image it uploaded, touching no other image, and the image is
\* gone unless that removal failed (the failure is swallowed, the answer stays
\* 409).
C7_UniqueCodesAndConflictOutcome ==
    /\ []UniqueItemCodes
    /\ [][\A c \in Clients :
            ConflictingInsert(c) =>
                /\ resp'[c].status = 409
                /\ items' = items
                /\ conn'[c] = "closed"
                /\ assets \ assets' \subseteq {loc[c].image_url} /\ assets' \subseteq assets
                /\ (loc[c].image_url # NULL => loc'[c].cleanup # "none")
                /\ (loc'[c].cleanup = "destroyed" => loc[c].image_url \notin assets')]_vars

C7_Witness ==
    \E c \in Clients :
        /\ AddConflict(c)
        /\ loc[c].image_url # NULL
        /\ loc[c].cleanup = "destroyed"
        /\ loc[c].image_url \notin assets
        /\ \E r \in items : r.item_code = args[c].item_code

\* the step of delete_item that executes the DELETE
DeleteStep(c) == pc[c] = "di_delete" /\ pc'[c] = "done"

\* C8: delete_item on a stored item_code removes the row and answers 200
\* whether or not the removal of its image succeeded; on a missing item_code it
\* answers 404 and leaves the table unchanged.
C8_DeleteSucceedsWhateverCleanupDoes ==
    [][\A c \in Clients :
        DeleteStep(c) =>
            LET hit == {r \in items : r.item_code = args[c].item_code}
            IN  IF hit # {}
                THEN /\ resp'[c].status = 200
                     /\ items' = items \ hit
                     /\ \A r \in items' : r.item_code # args[c].item_code
                ELSE /\ resp'[c].status = 404
                     /\ items' = items]_vars

C8_Witness ==
    \E c \in Clients :
        /\ pc[c] = "done" /\ handler[c] = "delete_item"
        /\ resp[c].status = 200
        /\ loc[c].cleanup = "failed"
        /\ loc[c].old_image_url \in assets
        /\ \A r \in items : r.item_code # args[c].item_code

C8_WitnessMissing ==
    \E c \in Clients :
        /\ pc[c] = "done" /\ handler[c] = "delete_item"
        /\ resp[c].status = 404
        /\ items # {}

\* C9: when a handler that opened a connection has finished, with whatever
\* outcome, the connection has been closed.
C9_ConnectionReleasedOnEveryExit ==
    \A c \in Clients : pc[c] = "done" => conn[c] # "open"

\* C9 for add_item alone, whose close() sits in a finally clause
C9_HoldsForAddItem ==
    \A c \in Clients : (pc[c] = "done" /\ handler[c] = "add_item") => conn[c] # "open"

\* an update_item request whose removal of the old image has taken effect
OldImageDestroyed(c) ==
    /\ handler[c] = "update_item"
    /\ loc[c].cleanup = "destroyed"

\* some stored (committed) row still refers to the image url
Referenced(url) == \E r \in items : r.image_filename = url

\* C11: update_item removes the item's old image only after the transaction
\* that sets the new image reference has committed or aborted: in no state
\* does a stored item refer to an image this request has already removed, also
\* when the request fails between the image UPDATE and the commit.
C11_OldImageRemovedOnlyAfterCommit ==
    \A c \in Clients : OldImageDestroyed(c) => ~Referenced(loc[c].old_image_url)

\* C11 for finished requests only: the reference is not left dangling
C11_NoDanglingReferenceAfterRequest ==
    \A c \in Clients :
        (OldImageDestroyed(c) /\ pc[c] = "done") => ~Referenced(loc[c].old_image_url)

\* C11 for requests that committed
C11_HoldsOnceCommitted ==
    \A c \in Clients :
        (OldImageDestroyed(c) /\ pc[c] = "done" /\ resp[c].status \in {200, 404}) =>
            ~Referenced(loc[c].old_image_url)

---------------------------------------------------------------------------
(* Properties of the seeder (checked under SpecSeed) *)

SeedDone(c) == pc[c] = "done" /\ handler[c] = "seed_database"

\* every sample code is stored, and the reported count is the number of rows
\* the run added to the table
SeedComplete(c) ==
    /\ \A code \in SampleCodes : \E r \in items : r.item_code = code
    /\ loc[c].inserted_count = Cardinality(items \ loc[c].table_before)

\* C12: whatever codes the table already holds, seed_database ends with every
\* sample item whose code was not stored before in the table, and reports as
\* inserted the number of rows it added: skipping a duplicate does not discard
\* the rows inserted before it.
C12_SeedKeepsEveryNewItem ==
    \A c \in Clients : SeedDone(c) => SeedComplete(c)

\* C12 for a run that meets no duplicate
C12_HoldsWithoutDuplicates ==
    \A c \in Clients :
        (SeedDone(c) /\ \A r \in loc[c].table_before : r.item_code \notin SampleCodes) =>
            SeedComplete(c)

\* C12 for runs whose duplicates all come before the first new item
C12_HoldsWhenDuplicatesComeFirst ==
    \A c \in Clients :
        (/\ SeedDone(c)
         /\ \A i, j \in 1..MaxSeed :
               (/\ i < j
                /\ \A r \in loc[c].table_before : r.item_code # SampleData[i].item_code)
               => \A r \in loc[c].table_before : r.item_code # SampleData[j].item_code) =>
            SeedComplete(c)

====
